---- MODULE Spec2Model ----
(***************************************************************************)
(* The PyQt5 window adapter of moderngl_window                             *)
(* (moderngl_window/context/pyqt5/window.py): the Window object's fields,  *)
(* the Qt callbacks it installs, and the calls each of them makes.         *)
(*                                                                         *)
(* Every handler is one action.  `calls` is the list of calls the handler  *)
(* that ran last made on its collaborators (the Qt widget/application and  *)
(* the BaseWindow callback slots), in program order; `last` is the event   *)
(* that handler received.  swap_buffers is split at app.processEvents(),   *)
(* the one call that re-enters the adapter: Qt delivers the pending events *)
(* to the handlers while it runs.                                          *)
(***************************************************************************)
EXTENDS Integers, Sequences, FiniteSets, TLC

VARIABLES
    ratio,            \* widget.devicePixelRatio()
    pc,               \* "construct" | "idle" | "processEvents"
    ctx,              \* self._ctx is set
    width,            \* self._width
    height,           \* self._height
    buffer_width,     \* self._buffer_width
    buffer_height,    \* self._buffer_height
    modifiers,        \* self._modifiers (.shift, .ctrl)
    key_pressed_map,  \* self._key_pressed_map (a dict: key -> bool)
    mouse_buttons,    \* self._mouse_buttons (button id -> held)
    frames,           \* self._frames
    quit,             \* QCoreApplication.instance().quit() has been called
    calls,            \* calls made by the handler that ran last
    last,             \* the event that handler received
    last_resize,      \* history: <<arguments of the most recent resize>>
    last_key,         \* history: <<modifier bits of the most recent key event>>
    key_last,         \* history: key -> action of its most recent key event
    completed         \* history: number of swap_buffers calls that returned

vars == <<ratio, pc, ctx, width, height, buffer_width, buffer_height,
          modifiers, key_pressed_map, mouse_buttons, frames,
          quit, calls, last, last_resize, last_key, key_last, completed>>

sizes   == <<width, height, buffer_width, buffer_height>>
input   == <<modifiers, key_pressed_map, mouse_buttons>>
history == <<last_resize, last_key, key_last, completed>>

----------------------------------------------------------------------------
(* Bounds and inputs *)

MaxFrames == 2

None == "None"

\* Qt constants used by the handlers
ShiftModifier   == 33554432     \* QtCore.Qt.ShiftModifier   0x02000000
ControlModifier == 67108864     \* QtCore.Qt.ControlModifier 0x04000000
AltModifier     == 134217728    \* QtCore.Qt.AltModifier     0x08000000
ESCAPE          == 16777216     \* Keys.ESCAPE = QtCore.Qt.Key_Escape
KEY_A           == 65           \* Keys.A = QtCore.Qt.Key_A
ACTION_PRESS    == "ACTION_PRESS"
ACTION_RELEASE  == "ACTION_RELEASE"

KeyCodes    == {ESCAPE, KEY_A}
ModBits     == {0, ShiftModifier, ControlModifier + AltModifier}
ButtonCodes == {1, 2, 4, 8}
Positions   == {<<5, 7>>}
Ratios      == {1, 2}
RawSizes    == {<<1920, 1080>>, <<3, 5>>}
AngleDeltas == {<<240, -120>>, <<60, -30>>}
ConfigSize  == <<1280, 720>>

----------------------------------------------------------------------------
(* Pure helpers *)

RECURSIVE BitAnd(_, _)
BitAnd(a, b) ==
    IF a = 0 \/ b = 0 THEN 0
    ELSE (a % 2) * (b % 2) + 2 * BitAnd(a \div 2, b \div 2)

Abs(n) == IF n < 0 THEN -n ELSE n

RECURSIVE Gcd(_, _)
Gcd(a, b) == IF b = 0 THEN a ELSE Gcd(b, a % b)

\* The value of n / d as a fraction in lowest terms <<numerator, denominator>>
Frac(n, d) == LET g == Gcd(Abs(n), d) IN <<n \div g, d \div g>>

Call(f, a) == [f |-> f, a |-> a]

\* map.get(key) of a Python dict: <<>> when the key is absent
entry(map, key) == IF key \in DOMAIN map THEN <<map[key]>> ELSE <<>>

----------------------------------------------------------------------------
(* The adapter's own tables and computations *)

\* Mutant: the right and middle buttons exchanged in the table
mouse_button_map_swapped == (1 :> 1) @@ (2 :> 3) @@ (4 :> 2)

\* Mutant: a fourth Qt button (code 8) added to the table
mouse_button_map_extra == (1 :> 1) @@ (2 :> 2) @@ (4 :> 3) @@ (8 :> 3)

\* Window._mouse_button_map
mouse_button_map == (1 :> 1) @@ (2 :> 2) @@ (4 :> 3)

\* self._mouse_button_map.get(code): <<>> stands for Python's None
button_of(code) ==
    IF code \in DOMAIN mouse_button_map THEN <<mouse_button_map[code]>>
    ELSE <<>>

\* Mutant: the two masks exchanged
handle_modifiers_swapped(mods) ==
    [shift |-> BitAnd(mods, ControlModifier),
     ctrl  |-> BitAnd(mods, ShiftModifier)]

\* Window._handle_modifiers: the new value of self._modifiers
handle_modifiers(mods) ==
    [shift |-> BitAnd(mods, ShiftModifier),
     ctrl  |-> BitAnd(mods, ControlModifier)]

\* Mutant: the division by the pixel ratio left out
logical_size_raw(v, r) == v

\* width // self.widget.devicePixelRatio()
logical_size(v, r) == v \div r

\* Mutant: the viewport reapplied without looking at self._ctx
viewport_always(c, bw, bh) == <<Call("set_default_viewport", <<bw, bh>>)>>

\* if self._ctx: self.set_default_viewport()
viewport_if_ctx(c, bw, bh) ==
    IF c THEN <<Call("set_default_viewport", <<bw, bh>>)>> ELSE <<>>

\* Mutant: the comparison inverted
is_escape_inverted(key) == key # ESCAPE

\* event.key() == self.keys.ESCAPE
is_escape(key) == key = ESCAPE

\* self._key_pressed_map[event.key()] = True
pressed(map, key) == (key :> TRUE) @@ map

\* Mutant: the release handler storing True, as the press handler does
released_as_pressed(map, key) == (key :> TRUE) @@ map

\* self._key_pressed_map[event.key()] = False
released(map, key) == (key :> FALSE) @@ map

\* Mutant: integer division (//) in place of the float division
notches_floor(d) == <<d \div 120, 1>>

\* point.x() / 120.0
notches(d) == Frac(d, 120)

\* Mutant: the increment lost
frames_after_swap_lost(f) == f

\* self._frames += 1
frames_after_swap(f) == f + 1

\* BaseWindow._handle_mouse_button_state_change
handle_mouse_button_state_change(map, button, state) ==
    [map EXCEPT ![button] = state]

----------------------------------------------------------------------------
(* State after BaseWindow.__init__ and lines 28-98 of Window.__init__:      *)
(* the widget exists and resizeGL is hooked, the context is not attached.   *)

Init ==
    /\ ratio \in Ratios
    /\ pc = "construct"
    /\ ctx = FALSE
    /\ width = ConfigSize[1]
    /\ height = ConfigSize[2]
    /\ buffer_width = 0
    /\ buffer_height = 0
    /\ modifiers = [shift |-> 0, ctrl |-> 0]
    /\ key_pressed_map = <<>>
    /\ mouse_buttons = [b \in 1..3 |-> FALSE]
    /\ frames = 0
    /\ quit = FALSE
    /\ calls = <<>>
    /\ last = [op |-> "__init__"]
    /\ last_resize = <<>>
    /\ last_key = <<>>
    /\ key_last = [k \in KeyCodes |-> None]
    /\ completed = 0

\* The application runs no Qt event loop: Qt calls the input handlers only
\* while swap_buffers is inside app.processEvents()
Delivering == pc = "processEvents"

\* Window.__init__, lines 98-105
attach_context ==
    /\ pc = "construct"
    /\ pc' = "idle"
    /\ ctx' = TRUE
    /\ buffer_width' = width * ratio
    /\ buffer_height' = height * ratio
    /\ calls' = <<Call("init_mgl_context", <<>>),
                  Call("set_default_viewport",
                       <<width * ratio, height * ratio>>)>>
    /\ last' = [op |-> "attach_context"]
    /\ UNCHANGED <<ratio, width, height, input, frames, quit,
                   history>>

\* Window.resize (Qt's resizeGL): called by widget.show() during construction
\* and by processEvents() afterwards
resize ==
    /\ pc = "construct" \/ Delivering
    /\ \E s \in RawSizes :
        /\ width' = logical_size(s[1], ratio)
        /\ height' = logical_size(s[2], ratio)
        /\ buffer_width' = s[1]
        /\ buffer_height' = s[2]
        /\ calls' = viewport_if_ctx(ctx, s[1], s[2])
                    \o <<Call("resize_func", <<s[1], s[2]>>)>>
        /\ last' = [op |-> "resize", w |-> s[1], h |-> s[2], ctx |-> ctx]
        /\ last_resize' = <<[w |-> s[1], h |-> s[2], ctx |-> ctx]>>
        /\ UNCHANGED <<ratio, pc, ctx, input, frames, quit,
                       last_key, key_last, completed>>

\* Window.swap_buffers up to and into self.app.processEvents()
swap_buffers ==
    /\ pc = "idle"
    /\ frames < MaxFrames
    /\ pc' = "processEvents"
    /\ calls' = <<Call("swapBuffers", <<>>),
                  Call("set_default_viewport", <<buffer_width, buffer_height>>),
                  Call("processEvents", <<>>)>>
    /\ last' = [op |-> "swap_buffers"]
    /\ UNCHANGED <<ratio, ctx, sizes, input, frames, quit,
                   history>>

\* Window.swap_buffers from the return of processEvents() to its end
swap_buffers_return ==
    /\ pc = "processEvents"
    /\ pc' = "idle"
    /\ frames' = frames_after_swap(frames)
    /\ completed' = completed + 1
    /\ calls' = <<>>
    /\ last' = [op |-> "swap_buffers_return"]
    /\ UNCHANGED <<ratio, ctx, sizes, input, quit,
                   last_resize, last_key, key_last>>

\* Window.key_pressed_event
key_pressed_event ==
    /\ Delivering
    /\ \E mods \in ModBits :
        /\ modifiers' = handle_modifiers(mods)
        /\ \E key \in KeyCodes :
            /\ key_pressed_map' = pressed(key_pressed_map, key)
            /\ calls' = (IF is_escape(key) THEN <<Call("close", <<>>)>>
                         ELSE <<>>)
                        \o <<Call("key_event_func",
                                  <<key, ACTION_PRESS, modifiers'>>)>>
            /\ last' = [op |-> "key_pressed_event", key |-> key,
                        mods |-> mods, prior |-> entry(key_pressed_map, key)]
            /\ last_key' = <<mods>>
            /\ key_last' = [key_last EXCEPT ![key] = ACTION_PRESS]
    /\ UNCHANGED <<ratio, pc, ctx, sizes, mouse_buttons, frames, quit,
                   last_resize, completed>>

\* Window.key_release_event
key_release_event ==
    /\ Delivering
    /\ \E mods \in ModBits :
        /\ modifiers' = handle_modifiers(mods)
        /\ \E key \in KeyCodes :
            /\ key_pressed_map' = released(key_pressed_map, key)
            /\ calls' = <<Call("key_event_func",
                               <<key, ACTION_RELEASE, modifiers'>>)>>
            /\ last' = [op |-> "key_release_event", key |-> key,
                        mods |-> mods, prior |-> entry(key_pressed_map, key)]
            /\ last_key' = <<mods>>
            /\ key_last' = [key_last EXCEPT ![key] = ACTION_RELEASE]
    /\ UNCHANGED <<ratio, pc, ctx, sizes, mouse_buttons, frames, quit, last_resize, completed>>

\* Window.mouse_move_event
mouse_move_event ==
    /\ Delivering
    /\ \E p \in Positions :
        /\ calls' = <<Call("mouse_position_event_func", <<p[1], p[2]>>)>>
        /\ last' = [op |-> "mouse_move_event", x |-> p[1], y |-> p[2]]
    /\ UNCHANGED <<ratio, pc, ctx, sizes, input, frames, quit,
                   history>>

\* Window.mouse_press_event
mouse_press_event ==
    /\ Delivering
    /\ \E code \in ButtonCodes, p \in Positions :
        LET button == button_of(code) IN
        /\ last' = [op |-> "mouse_press_event", button |-> code,
                    x |-> p[1], y |-> p[2]]
        /\ IF button = <<>>
           THEN /\ calls' = <<>>
                /\ UNCHANGED mouse_buttons
           ELSE /\ mouse_buttons' =
                       handle_mouse_button_state_change(mouse_buttons,
                                                        button[1], TRUE)
                /\ calls' = <<Call("mouse_press_event_func",
                                   <<p[1], p[2], button[1]>>)>>
    /\ UNCHANGED <<ratio, pc, ctx, sizes, modifiers, key_pressed_map, frames,
                   quit, history>>

\* Window.mouse_release_event
mouse_release_event ==
    /\ Delivering
    /\ \E code \in ButtonCodes, p \in Positions :
        LET button == button_of(code) IN
        /\ last' = [op |-> "mouse_release_event", button |-> code,
                    x |-> p[1], y |-> p[2]]
        /\ IF button = <<>>
           THEN /\ calls' = <<>>
                /\ UNCHANGED mouse_buttons
           ELSE /\ mouse_buttons' =
                       handle_mouse_button_state_change(mouse_buttons,
                                                        button[1], FALSE)
                /\ calls' = <<Call("mouse_release_event_func",
                                   <<p[1], p[2], button[1]>>)>>
    /\ UNCHANGED <<ratio, pc, ctx, sizes, modifiers, key_pressed_map, frames,
                   quit, history>>

\* Window.mouse_wheel_event
mouse_wheel_event ==
    /\ Delivering
    /\ \E d \in AngleDeltas :
        /\ calls' = <<Call("mouse_scroll_event_func",
                           <<notches(d[1]), notches(d[2])>>)>>
        /\ last' = [op |-> "mouse_wheel_event", dx |-> d[1], dy |-> d[2]]
    /\ UNCHANGED <<ratio, pc, ctx, sizes, input, frames, quit,
                   history>>

\* Window.close_event
close_event ==
    /\ Delivering
    /\ calls' = <<Call("close", <<>>)>>
    /\ last' = [op |-> "close_event"]
    /\ UNCHANGED <<ratio, pc, ctx, sizes, input, frames, quit, history>>

\* Window.destroy
destroy ==
    /\ pc = "idle"
    /\ quit' = TRUE
    /\ calls' = <<Call("quit", <<>>)>>
    /\ last' = [op |-> "destroy"]
    /\ UNCHANGED <<ratio, pc, ctx, sizes, input, frames, history>>

Next ==
    \/ attach_context
    \/ resize
    \/ swap_buffers
    \/ swap_buffers_return
    \/ key_pressed_event
    \/ key_release_event
    \/ mouse_move_event
    \/ mouse_press_event
    \/ mouse_release_event
    \/ mouse_wheel_event
    \/ close_event
    \/ destroy

Spec == Init /\ [][Next]_vars

TypeOK ==
    /\ pc \in {"construct", "idle", "processEvents"}
    /\ ctx = (pc # "construct")
    /\ frames \in 0..MaxFrames

----------------------------------------------------------------------------
(* Vocabulary of the properties *)

\* The bit `bit` (a power of two) is set in the bitmask m
HasBit(m, bit) == (m \div bit) % 2 = 1

\* The generic button id the interface assigns to a Qt button code
ExpectedButton(code) ==
    CASE code = 1 -> 1
      [] code = 2 -> 2
      [] code = 4 -> 3

Mapped(code) == code \in {1, 2, 4}

MouseButtonOps == {"mouse_press_event", "mouse_release_event"}

\* The modifier state m shows exactly the shift and control bits of mods
Shows(m, mods) ==
    /\ (m.shift # 0) = HasBit(mods, ShiftModifier)
    /\ (m.ctrl # 0) = HasBit(mods, ControlModifier)

\* The held-key map records key k as held
Held(k) == k \in DOMAIN key_pressed_map /\ key_pressed_map[k]

\* How many of the calls of the last handler went to f
Count(f) == Cardinality({i \in 1..Len(calls) : calls[i].f = f})

----------------------------------------------------------------------------
(* C1: a mouse press or release whose Qt button code is 1, 2 or 4 invokes   *)
(* the matching generic callback exactly once, with the event's (x, y) and  *)
(* button id 1, 2 or 3 respectively, and sets that button's held state to   *)
(* true on press and to false on release.                                   *)
C1_MappedButtonForwarded ==
    (last.op \in MouseButtonOps /\ Mapped(last.button)) =>
        LET id == ExpectedButton(last.button)
            f  == IF last.op = "mouse_press_event"
                  THEN "mouse_press_event_func"
                  ELSE "mouse_release_event_func"
        IN  /\ calls = <<Call(f, <<last.x, last.y, id>>)>>
            /\ mouse_buttons[id] = (last.op = "mouse_press_event")

\* the middle button (code 4) is released while the right one (code 2),
\* pressed earlier, is still held
C1_Witness ==
    /\ last.op = "mouse_release_event"
    /\ last.button = 4
    /\ mouse_buttons[2]
    /\ ~mouse_buttons[3]

(* C2: a mouse press or release whose Qt button code is not 1, 2 or 4 is    *)
(* dropped: no callback is invoked, and the held-button map, the held-key  *)
(* map, the modifier state, the stored sizes and the frame counter stay as *)
(* they were.                                                              *)
C2_UnmappedButtonDropped ==
    [][(last'.op \in MouseButtonOps /\ ~Mapped(last'.button)) =>
          /\ calls' = <<>>
          /\ UNCHANGED <<mouse_buttons, key_pressed_map, modifiers, sizes,
                         frames>>]_vars

\* a press of code 8 (a fourth button) arrives while button 1 and a key are
\* held
C2_Witness ==
    /\ last.op = "mouse_press_event"
    /\ last.button = 8
    /\ mouse_buttons[1]
    /\ Held(KEY_A)

(* C3 (as stated): after resize(w, h) with pixel-density ratio r the stored *)
(* logical size is (w // r, h // r), the stored buffer size is (w, h) and   *)
(* the resize notification receives (w, h); and in every later state the    *)
(* stored sizes are those of the most recent resize.                        *)
C3_SizesAlwaysOfLastResize ==
    /\ last.op = "resize" =>
           /\ Count("resize_func") = 1
           /\ calls[Len(calls)] = Call("resize_func", <<last.w, last.h>>)
    /\ last_resize # <<>> =>
           /\ width = last_resize[1].w \div ratio
           /\ height = last_resize[1].h \div ratio
           /\ buffer_width = last_resize[1].w
           /\ buffer_height = last_resize[1].h

(* C3 (amended): as above, except for the buffer size after construction:   *)
(* when the most recent resize arrived before the context was attached, the *)
(* last step of the constructor has replaced the buffer size by the logical *)
(* size times r, which is (w, h) only when r divides both.                  *)
C3_SizesOfLastResize ==
    /\ last.op = "resize" =>
           /\ Count("resize_func") = 1
           /\ calls[Len(calls)] = Call("resize_func", <<last.w, last.h>>)
           /\ buffer_width = last.w
           /\ buffer_height = last.h
    /\ last_resize # <<>> =>
           LET w == last_resize[1].w
               h == last_resize[1].h
           IN  /\ width = w \div ratio
               /\ height = h \div ratio
               /\ IF ctx /\ ~last_resize[1].ctx
                  THEN /\ buffer_width = (w \div ratio) * ratio
                       /\ buffer_height = (h \div ratio) * ratio
                  ELSE /\ buffer_width = w
                       /\ buffer_height = h
    /\ (last.op = "resize" /\ last.w = 1920 /\ last.h = 1080 /\ ratio = 2) =>
           /\ <<width, height>> = <<960, 540>>
           /\ <<buffer_width, buffer_height>> = <<1920, 1080>>

\* the most recent resize, to (3, 5) with r = 2, arrived during construction;
\* the constructor has since attached the context and a frame was presented
C3_Witness ==
    /\ ratio = 2
    /\ ctx
    /\ last_resize # <<>>
    /\ ~last_resize[1].ctx
    /\ last_resize[1].w = 3
    /\ <<width, height>> = <<1, 2>>
    /\ <<buffer_width, buffer_height>> = <<2, 4>>
    /\ frames = 1

(* C4: a resize that arrives before the rendering context exists does not   *)
(* reapply the viewport, but stores the new sizes and forwards the resize   *)
(* notification; once the context exists a resize reapplies the viewport    *)
(* (to the new buffer size) and then forwards the notification.             *)
C4_ViewportOnlyWithContext ==
    last.op = "resize" =>
        /\ width = last.w \div ratio
        /\ height = last.h \div ratio
        /\ buffer_width = last.w
        /\ buffer_height = last.h
        /\ IF last.ctx
           THEN calls = <<Call("set_default_viewport", <<last.w, last.h>>),
                          Call("resize_func", <<last.w, last.h>>)>>
           ELSE calls = <<Call("resize_func", <<last.w, last.h>>)>>

\* a resize handled while the constructor has not yet attached the context
C4_Witness ==
    /\ last.op = "resize"
    /\ ~last.ctx
    /\ ~ctx
    /\ buffer_width = 1920

(* C5: a key press whose key is the escape constant invokes close exactly   *)
(* once and still updates the modifiers, marks the key held and invokes the *)
(* key-event callback with (escape, press, modifiers); a key press for any  *)
(* other key does not invoke close.                                         *)
C5_EscapeCloses ==
    last.op = "key_pressed_event" =>
        /\ Count("close") = (IF last.key = ESCAPE THEN 1 ELSE 0)
        /\ Shows(modifiers, last.mods)
        /\ Held(last.key)
        /\ Count("key_event_func") = 1
        /\ calls[Len(calls)] =
               Call("key_event_func", <<last.key, ACTION_PRESS, modifiers>>)

\* escape is pressed with shift down
C5_Witness ==
    /\ last.op = "key_pressed_event"
    /\ last.key = ESCAPE
    /\ last.mods = ShiftModifier
    /\ Count("close") = 1

(* C6: a key release needs no earlier press: for any key, held or not, it   *)
(* updates the modifier state from the event's modifier bits, leaves the    *)
(* key not held, and invokes the key-event callback exactly once with       *)
(* (key, release, modifiers).                                               *)
C6_ReleaseUnconditional ==
    last.op = "key_release_event" =>
        /\ Shows(modifiers, last.mods)
        /\ ~Held(last.key)
        /\ calls = <<Call("key_event_func",
                          <<last.key, ACTION_RELEASE, modifiers>>)>>

\* a key that has never had a key event is released with shift down
C6_Witness ==
    /\ last.op = "key_release_event"
    /\ last.prior = <<>>
    /\ last.mods = ShiftModifier
    /\ modifiers.shift # 0

(* C7: destroy is terminal: once destroy has been called, no key or mouse   *)
(* event delivered to the adapter changes the held-key map or the           *)
(* held-button map.                                                         *)
C7_DestroyTerminal ==
    [][quit => UNCHANGED <<key_pressed_map, mouse_buttons>>]_vars

(* C8: a wheel event with angle delta (dx, dy) invokes the scroll callback  *)
(* exactly once with exactly (dx / 120, dy / 120): (240, -120) gives        *)
(* (2, -1), and a delta that is no multiple of 120 gives a fraction, not a  *)
(* truncated integer.                                                       *)
C8_WheelNotches ==
    last.op = "mouse_wheel_event" =>
        /\ Len(calls) = 1
        /\ calls[1].f = "mouse_scroll_event_func"
        /\ LET nx == calls[1].a[1]
               ny == calls[1].a[2]
           IN  /\ nx[2] > 0 /\ nx[1] * 120 = last.dx * nx[2]
               /\ ny[2] > 0 /\ ny[1] * 120 = last.dy * ny[2]
               /\ (last.dx % 120 # 0) => nx[2] # 1
               /\ (last.dy % 120 # 0) => ny[2] # 1
               /\ (last.dx = 240 /\ last.dy = -120) =>
                      (nx = <<2, 1>> /\ ny = <<-1, 1>>)

\* a finer wheel: (60, -30) is forwarded as (1/2, -1/4)
C8_Witness ==
    /\ last.op = "mouse_wheel_event"
    /\ last.dx = 60
    /\ calls[1].a = << <<1, 2>>, <<-1, 4>> >>

(* C9: a swap_buffers call presents the buffer, reapplies the viewport and  *)
(* pumps the pending Qt events once, in this order, and then adds exactly   *)
(* one to the frame counter; the frame counter always equals the number of  *)
(* completed swap_buffers calls, and no event handler changes it.           *)
C9_FrameCounter ==
    [][/\ (pc = "idle" /\ pc' = "processEvents") =>
              /\ calls' = <<Call("swapBuffers", <<>>),
                            Call("set_default_viewport",
                                 <<buffer_width, buffer_height>>),
                            Call("processEvents", <<>>)>>
              /\ frames' = frames
       /\ (pc = "processEvents" /\ pc' = "idle") => frames' = frames + 1
       /\ pc' = pc => frames' = frames
       /\ frames' = completed']_vars

\* the second swap_buffers call has returned, and events were handled
\* during its pump
C9_Witness ==
    /\ frames = 2
    /\ pc = "idle"
    /\ last.op = "swap_buffers_return"
    /\ key_last[KEY_A] = ACTION_PRESS
    /\ last_resize # <<>>

(* C10: the shift and ctrl flags show the modifier bits of the most recent  *)
(* key press or release, and a key is held iff its most recent key event    *)
(* was a press; mouse move, mouse button, wheel and resize events leave the *)
(* modifier flags and the held-key map unchanged; a press of a key that is  *)
(* already held is forwarded to the key-event callback like any other.      *)
C10_KeyState ==
    [][/\ last_key' # <<>> => Shows(modifiers', last_key'[1])
       /\ \A k \in KeyCodes :
              Held(k)' = (key_last'[k] = ACTION_PRESS)
       /\ last'.op \in {"mouse_move_event", "mouse_press_event",
                        "mouse_release_event", "mouse_wheel_event",
                        "resize"} =>
              UNCHANGED <<modifiers, key_pressed_map>>
       /\ (last'.op = "key_pressed_event" /\ Held(last'.key)) =>
              /\ Count("key_event_func")' = 1
              /\ calls'[Len(calls')] =
                     Call("key_event_func",
                          <<last'.key, ACTION_PRESS, modifiers'>>)]_vars

\* a native repeat: a press of a key that is already held, with ctrl+alt
C10_Witness ==
    /\ last.op = "key_pressed_event"
    /\ last.prior = <<TRUE>>
    /\ last.mods = ControlModifier + AltModifier
    /\ modifiers.ctrl # 0
    /\ modifiers.shift = 0

====
